---- MODULE Spec2Model ----
(***************************************************************************)
(* Model of the Whisper STT server                                         *)
(*   novel-mvp-backend/python-services/whisper-stt/app.py                  *)
(*                                                                         *)
(* One process holds a global whisper_model, loaded by the startup hook,   *)
(* and serves REST handlers.  A handler that takes an upload suspends once *)
(* at `await file.read()`; everything else in it runs without yielding.    *)
(*                                                                         *)
(* Representation.                                                         *)
(*  - An audio array is a run-length sequence of [v, c]: c consecutive     *)
(*    samples of value v.  Slicing, padding, len() and indexing are        *)
(*    computed on that representation, so the 480000-sample window keeps   *)
(*    its real size.                                                       *)
(*  - A float is an integer count of 1/Scale units (1.0 is Scale).         *)
(*  - An Optional value is <<>> (None) or <<x>>.                           *)
(*  - A dict is a record; `k in d` is  k \in DOMAIN d.                     *)
(*  - A Python call yields [kind |-> "return", value |-> v] or             *)
(*    [kind |-> "raise", exc |-> e].                                       *)
(***************************************************************************)
EXTENDS Integers, Sequences, FiniteSets, TLC

VARIABLES
    config,         \* the Config instance (module global)
    whisper_model,  \* the global model instance, None until loaded
    phase,          \* "created" | "serving" | "failed": life of the process
    startup_raised, \* TRUE when startup_event let an exception escape
    reqs,           \* per request slot: position, inputs, response, trace
    audio_pc,       \* position of the stand-alone preprocess_audio call
    audio_in,       \* its argument
    audio_out       \* its outcome

vars == <<config, whisper_model, phase, startup_raised, reqs,
          audio_pc, audio_in, audio_out>>

-----------------------------------------------------------------------------
(* Bounds of the model *)

MaxReqs == 2
MaxRuns == 2
Scale == 4

-----------------------------------------------------------------------------
(* Config (class attributes) *)

SAMPLE_RATE == 16000
MAX_FILE_SIZE == 25 * 1024 * 1024
LANGUAGE == "ko"
TEMPERATURE == 0


Config(name, device) ==
    [MODEL_NAME |-> name, DEVICE |-> device, LANGUAGE |-> LANGUAGE,
     TEMPERATURE |-> TEMPERATURE, MAX_FILE_SIZE |-> MAX_FILE_SIZE,
     SAMPLE_RATE |-> SAMPLE_RATE]

\* WHISPER_MODEL from the environment, torch.cuda.is_available()
Configs == {Config("base", "cpu"), Config("small", "cuda")}

None == [MODEL_NAME |-> "None", DEVICE |-> "None"]

-----------------------------------------------------------------------------
(* Python values *)

Return(v) == [kind |-> "return", value |-> v]
Raise(e) == [kind |-> "raise", exc |-> e]
Exception(msg) == [type |-> "Exception", status_code |-> 0, detail |-> <<msg>>]
HTTPException(code, detail) ==
    [type |-> "HTTPException", status_code |-> code, detail |-> detail]

Min(a, b) == IF a < b THEN a ELSE b
Abs(a) == IF a < 0 THEN 0 - a ELSE a

\* float division a / b
FDiv(a, b) == (a * Scale) \div b

-----------------------------------------------------------------------------
(* numpy arrays, run-length encoded *)

RECURSIVE ALen(_)
ALen(a) == IF a = <<>> THEN 0 ELSE Head(a).c + ALen(Tail(a))

\* a[:k]
RECURSIVE ATake(_, _)
ATake(a, k) ==
    IF a = <<>> \/ k <= 0 THEN <<>>
    ELSE IF Head(a).c <= k
         THEN <<Head(a)>> \o ATake(Tail(a), k - Head(a).c)
         ELSE <<[v |-> Head(a).v, c |-> k]>>

\* np.pad(a, (0, k)): k zeros after the data
APad(a, k) == a \o <<[v |-> 0, c |-> k]>>

\* a[i], 0 <= i < len(a)
RECURSIVE ASample(_, _)
ASample(a, i) ==
    IF i < Head(a).c THEN Head(a).v ELSE ASample(Tail(a), i - Head(a).c)

\* a.astype(np.float32) of an array librosa already returns as float32
AsFloat32(a) == a

\* librosa.load(io.BytesIO(bytes), sr=SAMPLE_RATE): mono samples at the
\* target rate, or an exception when the bytes are no audio container
LibrosaLoad(upload) ==
    IF upload.decodable THEN Return(upload.samples)
    ELSE Raise(Exception("decode"))

preprocess_audio_nopad(cfg, audio_file) ==
    LET loaded == LibrosaLoad(audio_file) IN
    IF loaded.kind = "raise" THEN loaded
    ELSE LET audio_data == AsFloat32(loaded.value)
             max_length == cfg.SAMPLE_RATE * 30
         IN  IF ALen(audio_data) > max_length
             THEN Return(ATake(audio_data, max_length))
             ELSE Return(audio_data)

preprocess_audio(cfg, audio_file) ==
    LET loaded == LibrosaLoad(audio_file) IN
    IF loaded.kind = "raise" THEN loaded
    ELSE LET audio_data == AsFloat32(loaded.value)
             max_length == cfg.SAMPLE_RATE * 30
         IN  IF ALen(audio_data) > max_length
             THEN Return(ATake(audio_data, max_length))
             ELSE Return(APad(audio_data, max_length - ALen(audio_data)))

-----------------------------------------------------------------------------
(* Inputs of the stand-alone preprocess_audio call *)

SampleValues == {-1, 0, 1}
RunCounts == {1, SAMPLE_RATE * 30 - 1, SAMPLE_RATE * 30, SAMPLE_RATE * 30 + 1}
Runs == [v : SampleValues, c : RunCounts]

RECURSIVE SeqsUpTo(_, _)
SeqsUpTo(S, n) ==
    IF n = 0 THEN {<<>>}
    ELSE LET shorter == SeqsUpTo(S, n - 1)
         IN  shorter \cup {Append(s, x) : s \in {t \in shorter : Len(t) = n - 1}, x \in S}

Upload(size, decodable, samples) ==
    [size |-> size, decodable |-> decodable, samples |-> samples]

AudioInputs ==
    {Upload(1024, TRUE, a) : a \in SeqsUpTo(Runs, MaxRuns)}
        \cup {Upload(1024, FALSE, <<>>)}

NoUpload == Upload(0, FALSE, <<>>)
NoOutcome == [kind |-> "none"]

-----------------------------------------------------------------------------
(* Strings are sequences of one-character strings where the code edits    *)
(* them, and sequences of fragments where it only concatenates them.      *)

RECURSIVE LStrip(_)
LStrip(s) == IF s # <<>> /\ Head(s) = " " THEN LStrip(Tail(s)) ELSE s

RECURSIVE RStrip(_)
RStrip(s) ==
    IF s # <<>> /\ s[Len(s)] = " " THEN RStrip(SubSeq(s, 1, Len(s) - 1)) ELSE s

\* str.strip()
Strip(s) == RStrip(LStrip(s))

\* str(e)
Str(e) ==
    IF e.type = "HTTPException"
    THEN <<ToString(e.status_code), ": ">> \o e.detail
    ELSE e.detail

-----------------------------------------------------------------------------
(* The whisper library.  The loaded model is a deterministic function of   *)
(* its arguments; which result it gives for which audio is arbitrary, so   *)
(* the table below is indexed by a key mixed from every argument and the   *)
(* model's identity.                                                       *)

\* whisper.load_model(name, device=device), when it succeeds
LoadModel(name, device) == [MODEL_NAME |-> name, DEVICE |-> device]

Seed(m) == IF m.MODEL_NAME = "base" THEN 0 ELSE 1

Segment(text, lp) ==
    IF lp = <<>> THEN [text |-> text, start |-> 0, end |-> 2 * Scale]
    ELSE [text |-> text, start |-> 0, end |-> 2 * Scale, avg_logprob |-> lp[1]]

Hi == <<" ", "h", "i", " ">>

TranscribeResults ==
    << Return([text |-> Hi, language |-> "ko",
               segments |-> <<Segment(Hi, <<0 - (Scale \div 2)>>)>>]),
       Return([text |-> Hi, language |-> "ko", segments |-> <<>>,
               avg_logprob |-> 0]),
       Raise(Exception("CUDA out of memory")),
       Return([text |-> <<"h", "i">>, segments |-> <<Segment(Hi, <<>>)>>,
               avg_logprob |-> 0 - Scale]),
       Return([text |-> <<" ">>, language |-> "en", duration |-> 30 * Scale,
               avg_logprob |-> 0 - 2 * Scale]) >>

FirstSample(audio) == IF ALen(audio) = 0 THEN 0 ELSE ASample(audio, 0)

\* whisper_model.transcribe(audio, **options)
Transcribe(m, audio, options) ==
    LET wt == IF "word_timestamps" \in DOMAIN options /\ options.word_timestamps
              THEN 1 ELSE 0
        lg == IF options.language = "en" THEN 3 ELSE 0
        key == Seed(m) + Abs(FirstSample(audio)) + wt + lg
    IN  TranscribeResults[(key % Len(TranscribeResults)) + 1]

\* language probabilities, an insertion-ordered dict as a sequence of items
DetectResults ==
    << Return(<<[lang |-> "ko", p |-> Scale - 1], [lang |-> "en", p |-> 1]>>),
       Return(<<[lang |-> "en", p |-> 1], [lang |-> "ko", p |-> Scale - 1]>>),
       Return(<<[lang |-> "en", p |-> Scale \div 2], [lang |-> "ko", p |-> Scale \div 2]>>),
       Raise(Exception("mel shape")) >>

\* whisper.log_mel_spectrogram(tensor, n_mels) then whisper_model.detect_language(mel)
DetectLanguage(m, audio) ==
    LET key == Seed(m) + Abs(FirstSample(audio))
    IN  DetectResults[(key % Len(DetectResults)) + 1]

\* max(probs, key=probs.get): the first key of the largest value
RECURSIVE MaxKey(_)
MaxKey(probs) ==
    IF Len(probs) = 1 THEN Head(probs)
    ELSE LET rest == MaxKey(Tail(probs))
         IN  IF Head(probs).p >= rest.p THEN Head(probs) ELSE rest

-----------------------------------------------------------------------------
(* Requests *)

Reqs == 1..MaxReqs

\* the uploads a client sends: len(content), and what the bytes decode to
Uploads ==
    { Upload(0, FALSE, <<>>),
      Upload(MAX_FILE_SIZE, TRUE,
             <<[v |-> 0, c |-> 1], [v |-> 1, c |-> SAMPLE_RATE * 30]>>),
      Upload(MAX_FILE_SIZE + 1, TRUE, <<[v |-> 1, c |-> SAMPLE_RATE]>>) }

\* the form fields of /v1/audio/transcriptions that the handler uses
Params(language, temperature, timestamp_granularities) ==
    [language |-> language, temperature |-> temperature,
     timestamp_granularities |-> timestamp_granularities]

DefaultParams == Params(LANGUAGE, TEMPERATURE, <<>>)

FormParams ==
    { DefaultParams,
      Params(LANGUAGE, TEMPERATURE, <<"word">>),
      Params("en", TEMPERATURE, <<>>) }

Timestamps == {"t1", "t2"}

Response(code, body) == [status_code |-> code, body |-> body]
NoResponse == Response(0, [none |-> TRUE])

\* what the handler did: awaited file.read(), called preprocess_audio,
\* invoked the model (and the dict the model returned)
Trace(read, pre, called, result) ==
    [read |-> read, pre |-> pre, called |-> called, result |-> result]
NoTrace == Trace(FALSE, FALSE, FALSE, <<>>)

\* overlapped: when this handler resumed from its await, another handler
\* was suspended at its own
Req(pc, endpoint, upload, params, resp, trace) ==
    [pc |-> pc, endpoint |-> endpoint, upload |-> upload, params |-> params,
     resp |-> resp, trace |-> trace, overlapped |-> FALSE]

IdleReq == Req("idle", "none", NoUpload, DefaultParams, NoResponse, NoTrace)

\* FastAPI: a returned value is a 200, a raised HTTPException its status
ToResponse(o) ==
    IF o.kind = "return" THEN Response(200, o.value)
    ELSE IF o.exc.type = "HTTPException"
         THEN Response(o.exc.status_code, [detail |-> o.exc.detail])
         ELSE Response(500, [detail |-> <<"Internal Server Error">>])

Done(r, out, trace) ==
    [reqs[r] EXCEPT !.pc = "done", !.resp = ToResponse(out), !.trace = trace,
                    !.overlapped = \E q \in Reqs \ {r} : reqs[q].pc = "read"]

\* d.get(k)
Get(d, k) == IF k \in DOMAIN d THEN <<d[k]>> ELSE <<>>

-----------------------------------------------------------------------------
(* transcribe_audio *)

Confidence_nodiv(result) ==
    IF "avg_logprob" \in DOMAIN result
    THEN <<Scale - result.avg_logprob>>
    ELSE <<>>

\* 1.0 - (result.get("avg_logprob", -1.0) / -1.0) if "avg_logprob" in result else None
Confidence(result) ==
    IF "avg_logprob" \in DOMAIN result
    THEN <<Scale - FDiv(result.avg_logprob, 0 - Scale)>>
    ELSE <<>>

TranscriptionResponse(result) ==
    [text |-> Strip(result.text),
     language |-> Get(result, "language"),
     duration |-> Get(result, "duration"),
     segments |-> Get(result, "segments"),
     confidence |-> Confidence(result)]

\* whisper_model.transcribe(...) on the global as it is at the call
CallTranscribe(m, audio, options) ==
    IF m = None
    THEN Raise(Exception("'NoneType' object has no attribute 'transcribe'"))
    ELSE Transcribe(m, audio, options)

\* the try block, from the resumption of `await file.read()`
transcribe_audio_try(cfg, m, content, params) ==
    IF content.size > cfg.MAX_FILE_SIZE
    THEN [out |-> Raise(HTTPException(413, <<"File too large. Maximum size: ",
                                          ToString(cfg.MAX_FILE_SIZE), " bytes">>)),
          trace |-> Trace(TRUE, FALSE, FALSE, <<>>)]
    ELSE LET audio_data == preprocess_audio(cfg, content) IN
         IF audio_data.kind = "raise"
         THEN [out |-> audio_data, trace |-> Trace(TRUE, TRUE, FALSE, <<>>)]
         ELSE LET options == IF params.timestamp_granularities # <<>>
                             THEN [language |-> params.language,
                                   temperature |-> params.temperature,
                                   word_timestamps |-> TRUE]
                             ELSE [language |-> params.language,
                                   temperature |-> params.temperature]
                  result == CallTranscribe(m, audio_data.value, options)
              IN  IF result.kind = "raise"
                  THEN [out |-> result, trace |-> Trace(TRUE, TRUE, m # None, <<>>)]
                  ELSE [out |-> Return(TranscriptionResponse(result.value)),
                        trace |-> Trace(TRUE, TRUE, TRUE, <<result.value>>)]

\* except Exception as e: raise HTTPException(500, f"Transcription failed: {str(e)}")
transcribe_audio_except(t) ==
    IF t.out.kind = "raise"
    THEN [t EXCEPT !.out = Raise(HTTPException(500,
                        <<"Transcription failed: ">> \o Str(t.out.exc)))]
    ELSE t


NotLoaded == Raise(HTTPException(503, <<"Whisper model not loaded">>))

KeepServer == UNCHANGED <<config, whisper_model, phase, startup_raised>>
KeepAudio == UNCHANGED <<audio_pc, audio_in, audio_out>>

transcribe_audio_unguarded(r) ==
    /\ phase = "serving"
    /\ reqs[r].pc = "idle"
    /\ \E file \in Uploads, params \in FormParams :
           reqs' = [reqs EXCEPT ![r] =
                       Req("read", "transcriptions", file, params, NoResponse, NoTrace)]
    /\ KeepServer
    /\ KeepAudio

\* POST /v1/audio/transcriptions, up to `await file.read()`
transcribe_audio(r) ==
    /\ phase = "serving"
    /\ reqs[r].pc = "idle"
    /\ \E file \in Uploads, params \in FormParams :
           reqs' = [reqs EXCEPT ![r] =
                       IF whisper_model = None
                       THEN Req("done", "transcriptions", file, params,
                                ToResponse(NotLoaded), NoTrace)
                       ELSE Req("read", "transcriptions", file, params,
                                NoResponse, NoTrace)]
    /\ KeepServer
    /\ KeepAudio

\* ... and from there to the response
transcribe_audio_resume(r) ==
    /\ reqs[r].pc = "read"
    /\ reqs[r].endpoint = "transcriptions"
    /\ LET t == transcribe_audio_except(
                    transcribe_audio_try(config, whisper_model,
                                         reqs[r].upload, reqs[r].params))
       IN  reqs' = [reqs EXCEPT ![r] = Done(r, t.out, t.trace)]
    /\ KeepServer
    /\ KeepAudio

-----------------------------------------------------------------------------
(* detect_language *)

LanguageDetectionResponse(lang, confidence) ==
    [detected_language |-> lang, confidence |-> confidence]

detect_language_try(cfg, m, content) ==
    IF content.size > cfg.MAX_FILE_SIZE
    THEN [out |-> Raise(HTTPException(413, <<"File too large">>)),
          trace |-> Trace(TRUE, FALSE, FALSE, <<>>)]
    ELSE LET audio_data == preprocess_audio(cfg, content) IN
         IF audio_data.kind = "raise"
         THEN [out |-> audio_data, trace |-> Trace(TRUE, TRUE, FALSE, <<>>)]
         ELSE IF m = None
         THEN [out |-> Raise(Exception("'NoneType' object has no attribute 'dims'")),
               trace |-> Trace(TRUE, TRUE, FALSE, <<>>)]
         ELSE LET audio_segment == ATake(audio_data.value, cfg.SAMPLE_RATE * 30)
                  probs == DetectLanguage(m, audio_segment)
              IN  IF probs.kind = "raise"
                  THEN [out |-> probs, trace |-> Trace(TRUE, TRUE, TRUE, <<>>)]
                  ELSE LET best == MaxKey(probs.value)
                       IN  [out |-> Return(LanguageDetectionResponse(best.lang, best.p)),
                            trace |-> Trace(TRUE, TRUE, TRUE, <<probs.value>>)]

detect_language_except(t) ==
    IF t.out.kind = "raise"
    THEN [t EXCEPT !.out = Raise(HTTPException(500,
                        <<"Language detection failed: ">> \o Str(t.out.exc)))]
    ELSE t

\* POST /v1/audio/detect-language, up to `await file.read()`
detect_language(r) ==
    /\ phase = "serving"
    /\ reqs[r].pc = "idle"
    /\ \E file \in Uploads :
           reqs' = [reqs EXCEPT ![r] =
                       IF whisper_model = None
                       THEN Req("done", "detect-language", file, DefaultParams,
                                ToResponse(NotLoaded), NoTrace)
                       ELSE Req("read", "detect-language", file, DefaultParams,
                                NoResponse, NoTrace)]
    /\ KeepServer
    /\ KeepAudio

detect_language_resume(r) ==
    /\ reqs[r].pc = "read"
    /\ reqs[r].endpoint = "detect-language"
    /\ LET t == detect_language_except(
                    detect_language_try(config, whisper_model, reqs[r].upload))
       IN  reqs' = [reqs EXCEPT ![r] = Done(r, t.out, t.trace)]
    /\ KeepServer
    /\ KeepAudio

-----------------------------------------------------------------------------
(* transcribe_quick *)

transcribe_quick_try(cfg, m, content) ==
    LET audio_data == preprocess_audio(cfg, content) IN
    IF audio_data.kind = "raise"
    THEN [out |-> audio_data, trace |-> Trace(TRUE, TRUE, FALSE, <<>>)]
    ELSE LET result == CallTranscribe(m, audio_data.value,
                           [language |-> cfg.LANGUAGE, temperature |-> 0,
                            word_timestamps |-> FALSE])
         IN  IF result.kind = "raise"
             THEN [out |-> result, trace |-> Trace(TRUE, TRUE, m # None, <<>>)]
             ELSE [out |-> Return([text |-> Strip(result.value.text)]),
                   trace |-> Trace(TRUE, TRUE, TRUE, <<result.value>>)]

\* except Exception as e: raise HTTPException(500, str(e))
transcribe_quick_except(t) ==
    IF t.out.kind = "raise"
    THEN [t EXCEPT !.out = Raise(HTTPException(500, Str(t.out.exc)))]
    ELSE t

\* POST /transcribe-quick, up to `await file.read()`
transcribe_quick(r) ==
    /\ phase = "serving"
    /\ reqs[r].pc = "idle"
    /\ \E file \in Uploads :
           reqs' = [reqs EXCEPT ![r] =
                       Req("read", "transcribe-quick", file, DefaultParams,
                           NoResponse, NoTrace)]
    /\ KeepServer
    /\ KeepAudio

transcribe_quick_resume_reset(r) ==
    /\ reqs[r].pc = "read"
    /\ reqs[r].endpoint = "transcribe-quick"
    /\ LET t == transcribe_quick_except(
                    transcribe_quick_try(config, whisper_model, reqs[r].upload))
       IN  /\ reqs' = [reqs EXCEPT ![r] = Done(r, t.out, t.trace)]
           /\ whisper_model' = IF t.out.kind = "raise" THEN None ELSE whisper_model
    /\ UNCHANGED <<config, phase, startup_raised>>
    /\ KeepAudio

transcribe_quick_resume(r) ==
    /\ reqs[r].pc = "read"
    /\ reqs[r].endpoint = "transcribe-quick"
    /\ LET t == transcribe_quick_except(
                    transcribe_quick_try(config, whisper_model, reqs[r].upload))
       IN  reqs' = [reqs EXCEPT ![r] = Done(r, t.out, t.trace)]
    /\ KeepServer
    /\ KeepAudio

-----------------------------------------------------------------------------
(* transcribe_stream *)

RECURSIVE StreamSegments(_)
StreamSegments(segs) ==
    IF segs = <<>> THEN <<>>
    ELSE LET segment == Head(segs)
             lp == IF "avg_logprob" \in DOMAIN segment
                   THEN segment.avg_logprob ELSE 0 - Scale
         IN  <<[text |-> Strip(segment.text), start |-> segment.start,
                end |-> segment.end, confidence |-> Scale - Abs(lp)]>>
                 \o StreamSegments(Tail(segs))

transcribe_stream_try(cfg, m, content) ==
    LET audio_data == preprocess_audio(cfg, content) IN
    IF audio_data.kind = "raise"
    THEN [out |-> audio_data, trace |-> Trace(TRUE, TRUE, FALSE, <<>>)]
    ELSE LET result == CallTranscribe(m, audio_data.value,
                           [language |-> cfg.LANGUAGE, word_timestamps |-> TRUE,
                            condition_on_previous_text |-> TRUE])
         IN  IF result.kind = "raise"
             THEN [out |-> result, trace |-> Trace(TRUE, TRUE, m # None, <<>>)]
             ELSE LET segs == IF "segments" \in DOMAIN result.value
                              THEN result.value.segments ELSE <<>>
                  IN  [out |-> Return([text |-> Strip(result.value.text),
                                       segments |-> StreamSegments(segs),
                                       language |-> Get(result.value, "language")]),
                       trace |-> Trace(TRUE, TRUE, TRUE, <<result.value>>)]

\* except Exception as e: raise HTTPException(500, str(e))
transcribe_stream_except(t) ==
    IF t.out.kind = "raise"
    THEN [t EXCEPT !.out = Raise(HTTPException(500, Str(t.out.exc)))]
    ELSE t

\* POST /transcribe-stream, up to `await file.read()`
transcribe_stream(r) ==
    /\ phase = "serving"
    /\ reqs[r].pc = "idle"
    /\ \E file \in Uploads :
           reqs' = [reqs EXCEPT ![r] =
                       Req("read", "transcribe-stream", file, DefaultParams,
                           NoResponse, NoTrace)]
    /\ KeepServer
    /\ KeepAudio

transcribe_stream_resume(r) ==
    /\ reqs[r].pc = "read"
    /\ reqs[r].endpoint = "transcribe-stream"
    /\ LET t == transcribe_stream_except(
                    transcribe_stream_try(config, whisper_model, reqs[r].upload))
       IN  reqs' = [reqs EXCEPT ![r] = Done(r, t.out, t.trace)]
    /\ KeepServer
    /\ KeepAudio

-----------------------------------------------------------------------------
(* The handlers that take no upload and never suspend *)

HealthResponse_inverted(m, cfg, now) ==
    [status |-> IF m # None THEN "unhealthy" ELSE "healthy",
     model |-> cfg.MODEL_NAME, device |-> cfg.DEVICE, timestamp |-> now]

HealthResponse(m, cfg, now) ==
    [status |-> IF m # None THEN "healthy" ELSE "unhealthy",
     model |-> cfg.MODEL_NAME, device |-> cfg.DEVICE, timestamp |-> now]

\* GET /health
health_check(r) ==
    /\ phase = "serving"
    /\ reqs[r].pc = "idle"
    /\ \E now \in Timestamps :
           reqs' = [reqs EXCEPT ![r] =
                       Req("done", "health", NoUpload, DefaultParams,
                           ToResponse(Return(HealthResponse(whisper_model, config, now))),
                           NoTrace)]
    /\ KeepServer
    /\ KeepAudio

\* GET /v1/models
get_models(r) ==
    /\ phase = "serving"
    /\ reqs[r].pc = "idle"
    /\ reqs' = [reqs EXCEPT ![r] =
                   Req("done", "models", NoUpload, DefaultParams,
                       ToResponse(Return([data |-> <<"tiny", "base", "small",
                                                     "medium", "large">>])),
                       NoTrace)]
    /\ KeepServer
    /\ KeepAudio

\* GET /info
get_info(r) ==
    /\ phase = "serving"
    /\ reqs[r].pc = "idle"
    /\ reqs' = [reqs EXCEPT ![r] =
                   Req("done", "info", NoUpload, DefaultParams,
                       ToResponse(Return([service |-> "Whisper STT Server",
                                          model |-> config.MODEL_NAME,
                                          device |-> config.DEVICE])),
                       NoTrace)]
    /\ KeepServer
    /\ KeepAudio

\* the framework sends the response; the slot serves the next request
send_response(r) ==
    /\ reqs[r].pc = "done"
    /\ reqs' = [reqs EXCEPT ![r] = IdleReq]
    /\ KeepServer
    /\ KeepAudio

-----------------------------------------------------------------------------
(* Startup *)

startup_event_raises_assigned ==
    /\ phase = "created"
    /\ whisper_model' = LoadModel("partial", config.DEVICE)
    /\ startup_raised' = TRUE
    /\ phase' = "failed"
    /\ UNCHANGED <<config, reqs>>
    /\ KeepAudio

\* startup_event -> load_whisper_model, whisper.load_model returns
startup_event ==
    /\ phase = "created"
    /\ whisper_model' = LoadModel(config.MODEL_NAME, config.DEVICE)
    /\ phase' = "serving"
    /\ UNCHANGED <<config, startup_raised, reqs>>
    /\ KeepAudio

\* whisper.load_model raises: logged and re-raised, out of the hook; the
\* server reports the failed startup and exits
startup_event_raises ==
    /\ phase = "created"
    /\ startup_raised' = TRUE
    /\ phase' = "failed"
    /\ UNCHANGED <<config, whisper_model, reqs>>
    /\ KeepAudio

\* the app is served with no lifespan startup (the hook is only registered
\* for that event), so the handlers run with the module's initial globals
serve_without_startup ==
    /\ phase = "created"
    /\ phase' = "serving"
    /\ UNCHANGED <<config, whisper_model, startup_raised, reqs>>
    /\ KeepAudio

-----------------------------------------------------------------------------
(* The server *)

Init ==
    /\ config \in Configs
    /\ whisper_model = None
    /\ phase = "created"
    /\ startup_raised = FALSE
    /\ reqs = [r \in Reqs |-> IdleReq]
    /\ audio_pc = "unused"
    /\ audio_in = NoUpload
    /\ audio_out = NoOutcome

Next ==
    \/ startup_event
    \/ startup_event_raises
    \/ serve_without_startup
    \/ \E r \in Reqs : health_check(r)
    \/ \E r \in Reqs : get_models(r)
    \/ \E r \in Reqs : get_info(r)
    \/ \E r \in Reqs : transcribe_audio(r)
    \/ \E r \in Reqs : transcribe_audio_resume(r)
    \/ \E r \in Reqs : detect_language(r)
    \/ \E r \in Reqs : detect_language_resume(r)
    \/ \E r \in Reqs : transcribe_quick(r)
    \/ \E r \in Reqs : transcribe_quick_resume(r)
    \/ \E r \in Reqs : transcribe_stream(r)
    \/ \E r \in Reqs : transcribe_stream_resume(r)
    \/ \E r \in Reqs : send_response(r)

Spec == Init /\ [][Next]_vars

-----------------------------------------------------------------------------
(* preprocess_audio on its own, over every input of AudioInputs *)

preprocess_audio_call ==
    /\ audio_pc = "call"
    /\ audio_out' = preprocess_audio(config, audio_in)
    /\ audio_pc' = "done"
    /\ UNCHANGED <<config, whisper_model, phase, startup_raised, reqs, audio_in>>

InitAudio ==
    /\ config \in Configs
    /\ whisper_model = None
    /\ phase = "created"
    /\ startup_raised = FALSE
    /\ reqs = [r \in Reqs |-> IdleReq]
    /\ audio_pc = "call"
    /\ audio_in \in AudioInputs
    /\ audio_out = NoOutcome

NextAudio == preprocess_audio_call

SpecAudio == InitAudio /\ [][NextAudio]_vars

-----------------------------------------------------------------------------
(* Properties *)

\* the first index of every run of a, and len(a)
RECURSIVE RunStarts(_, _)
RunStarts(a, from) ==
    IF a = <<>> THEN {from}
    ELSE {from} \cup RunStarts(Tail(a), from + Head(a).c)

\* Both arrays are constant between two consecutive run starts of either,
\* so two arrays that agree at every run start of either (and at the index
\* before it) agree at every index.
Probes(a, b) ==
    LET starts == RunStarts(a, 0) \cup RunStarts(b, 0) \cup {0, 480000}
    IN  {i \in starts \cup {j - 1 : j \in starts} : 0 <= i /\ i < 480000}

\* C1: for every input that decodes to n samples, preprocess_audio returns
\* exactly 480000 samples; the first min(n, 480000) are the decoded samples
\* in order and every later one is zero.
C1_FixedWindow ==
    (audio_pc = "done" /\ audio_in.decodable) =>
        /\ audio_out.kind = "return"
        /\ SAMPLE_RATE * 30 = 480000
        /\ ALen(audio_out.value) = 480000
        /\ LET decoded == audio_in.samples
               n == ALen(decoded)
           IN  \A i \in Probes(decoded, audio_out.value) :
                   IF i < Min(n, 480000)
                   THEN ASample(audio_out.value, i) = ASample(decoded, i)
                   ELSE ASample(audio_out.value, i) = 0

\* a two-sample input with non-zero data at its last sample has been padded
C1_Witness ==
    /\ audio_pc = "done"
    /\ audio_in.decodable
    /\ Len(audio_in.samples) = 2
    /\ ALen(audio_in.samples) = 2
    /\ ASample(audio_in.samples, 0) # ASample(audio_in.samples, 1)
    /\ ASample(audio_in.samples, 1) # 0
    /\ audio_out.kind = "return"
    /\ ASample(audio_out.value, 1) = ASample(audio_in.samples, 1)
    /\ ASample(audio_out.value, 2) = 0

UploadEndpoints ==
    {"transcriptions", "detect-language", "transcribe-quick", "transcribe-stream"}

\* C2: with the model loaded, a transcriptions or detect-language request
\* whose content is longer than 25 * 1024 * 1024 bytes is answered 413.
C2_TooLarge413 ==
    \A r \in Reqs :
        ( /\ reqs[r].pc = "done"
          /\ reqs[r].endpoint \in {"transcriptions", "detect-language"}
          /\ whisper_model # None
          /\ reqs[r].upload.size > 25 * 1024 * 1024 )
        => reqs[r].resp.status_code = 413

\* C3: while whisper_model is None, a transcriptions or detect-language
\* request is answered 503 "Whisper model not loaded" without reading the
\* upload, calling preprocess_audio or invoking the model.
C3_NotLoaded503 ==
    whisper_model = None =>
        \A r \in Reqs :
            reqs[r].endpoint \in {"transcriptions", "detect-language"} =>
                /\ reqs[r].pc = "done"
                /\ reqs[r].resp.status_code = 503
                /\ reqs[r].resp.body = [detail |-> <<"Whisper model not loaded">>]
                /\ ~reqs[r].trace.read
                /\ ~reqs[r].trace.pre
                /\ ~reqs[r].trace.called

C3_Witness ==
    /\ whisper_model = None
    /\ \E r \in Reqs : reqs[r].endpoint = "transcriptions" /\ reqs[r].pc = "done"
    /\ \E r \in Reqs : reqs[r].endpoint = "detect-language" /\ reqs[r].pc = "done"

\* C4: whisper_model is None initially; it changes only in the startup
\* hook's load, from None to a model, never in a request handler; when the
\* load fails the exception leaves the hook and whisper_model is still None.
C4_ModelLifecycle ==
    /\ whisper_model = None
    /\ [][ whisper_model' # whisper_model =>
               /\ phase = "created" /\ phase' = "serving"
               /\ whisper_model = None /\ whisper_model' # None
               /\ reqs' = reqs ]_vars
    /\ [](phase = "failed" => startup_raised /\ whisper_model = None)
    /\ [](startup_raised => phase = "failed")

\* the model is loaded and a handler that invoked it has finished
C4_Witness ==
    /\ whisper_model # None
    /\ \E r \in Reqs : reqs[r].pc = "done" /\ reqs[r].trace.called

\* C5: GET /health is always answered 200; its status is "healthy" exactly
\* when whisper_model is not None and "unhealthy" exactly when it is None;
\* the handler leaves whisper_model unchanged.
C5_Health ==
    /\ [](\A r \in Reqs :
            reqs[r].endpoint = "health" =>
                /\ reqs[r].pc = "done"
                /\ reqs[r].resp.status_code = 200
                /\ reqs[r].resp.body.status = "healthy" <=> whisper_model # None
                /\ reqs[r].resp.body.status = "unhealthy" <=> whisper_model = None)
    /\ [][ \A r \in Reqs :
             (reqs[r].pc = "idle" /\ reqs'[r].endpoint = "health")
                 => whisper_model' = whisper_model ]_vars

C5_Witness ==
    /\ whisper_model # None
    /\ \E r \in Reqs :
           /\ reqs[r].endpoint = "health"
           /\ reqs[r].resp.body.status = "healthy"

\* C6: in a transcriptions response, confidence is null exactly when the
\* model result has no "avg_logprob"; with avg_logprob = x it is 1 + x.
C6_Confidence ==
    \A r \in Reqs :
        ( /\ reqs[r].pc = "done"
          /\ reqs[r].endpoint = "transcriptions"
          /\ reqs[r].resp.status_code = 200 )
        => LET result == reqs[r].trace.result[1]
               confidence == reqs[r].resp.body.confidence
           IN  /\ confidence = <<>> <=> "avg_logprob" \notin DOMAIN result
               /\ "avg_logprob" \in DOMAIN result =>
                      /\ confidence = <<Scale + result.avg_logprob>>
                      /\ result.avg_logprob = 0 => confidence[1] = Scale
                      /\ result.avg_logprob = 0 - Scale => confidence[1] = 0
                      /\ result.avg_logprob < 0 - Scale => confidence[1] < 0

\* a result with avg_logprob below -1 was turned into a negative confidence
C6_Witness ==
    \E r \in Reqs :
        /\ reqs[r].pc = "done"
        /\ reqs[r].endpoint = "transcriptions"
        /\ reqs[r].resp.status_code = 200
        /\ "avg_logprob" \in DOMAIN reqs[r].trace.result[1]
        /\ reqs[r].trace.result[1].avg_logprob < 0 - Scale
        /\ reqs[r].resp.body.confidence[1] < 0

\* the response of request q when its handler runs with no other request
Alone(q) ==
    LET t == CASE q.endpoint = "transcriptions" ->
                      transcribe_audio_except(
                          transcribe_audio_try(config, whisper_model, q.upload, q.params))
               [] q.endpoint = "detect-language" ->
                      detect_language_except(
                          detect_language_try(config, whisper_model, q.upload))
               [] q.endpoint = "transcribe-quick" ->
                      transcribe_quick_except(transcribe_quick_try(config, whisper_model, q.upload))
               [] q.endpoint = "transcribe-stream" ->
                      transcribe_stream_except(transcribe_stream_try(config, whisper_model, q.upload))
    IN  IF q.endpoint \in {"transcriptions", "detect-language"} /\ whisper_model = None
        THEN ToResponse(NotLoaded)
        ELSE ToResponse(t.out)

\* C7: no handler writes whisper_model or config, and whatever other
\* handlers were suspended or ran in between, the response of a request is
\* the one it gets when run alone.
C7_Isolation ==
    /\ [][ phase = "serving" => whisper_model' = whisper_model /\ config' = config ]_vars
    /\ [](\A r \in Reqs :
            (reqs[r].pc = "done" /\ reqs[r].endpoint \in UploadEndpoints)
                => reqs[r].resp = Alone(reqs[r]))

\* two finished requests, each of which ran while the other was suspended
\* at its await or had been suspended alongside it
C7_Witness ==
    /\ whisper_model # None
    /\ \E r, q \in Reqs :
           /\ r # q
           /\ reqs[r].pc = "done" /\ reqs[r].overlapped
           /\ reqs[r].endpoint = "transcriptions" /\ reqs[r].resp.status_code = 200
           /\ reqs[q].pc = "done"
           /\ reqs[q].endpoint = "transcribe-quick"

====
